---- MODULE Spec2Model ----
(***************************************************************************)
(* posturn: a Host shares one State (started flag + game) behind an        *)
(* Rc<RefCell<..>>; play() builds a coroutine whose body (the game's       *)
(* play) yields events through a Context and is resumed with inputs.       *)
(*                                                                         *)
(* The driver is the program around the Host: it creates and clones        *)
(* hosts, opens and drops guards, starts and resumes coroutines.  A panic  *)
(* ends the program: once last.res = "panic" no action is enabled.         *)
(***************************************************************************)
EXTENDS Integers, Sequences, FiniteSets, TLC

VARIABLES
  cells,   \* the State behind every Rc<RefCell<State>>: flag, game, borrow count
  hosts,   \* the Host handles the driver holds: the cell each one points to
  txns,    \* the guards (Ref / RefMut) the driver holds open, oldest first
  runs,    \* the coroutines play() has returned
  kept,    \* what the driver keeps of earlier calls: snapshots, errors of play()
  last     \* the last operation of the driver and what it returned

vars == <<cells, hosts, txns, runs, kept, last>>

----------------------------------------------------------------------------
(* Bounds of the model. *)

MaxHosts == 2     \* Host handles after which the driver clones no more
MaxTxns == 2      \* guards the driver holds open at once
MaxRuns == 2      \* coroutines the driver obtains from play()
MaxResumes == 6   \* resumes of one coroutine
MaxSeen == 3      \* events a Tally has counted when the driver stops sending it more
MaxPlaced == 2    \* tiles claimed before the driver of SpecDrop gives up
MaxPos == 5       \* tiles (row-major, from 0) the TicTacToe driver names
MaxCells == 2     \* hosts the driver builds with Host::new
MaxKept == 2      \* results the driver keeps

(* Program constants. *)

BOARD_SIZE == 3

----------------------------------------------------------------------------
(* Values. *)

None == [tag |-> "None"]

Choice == {"Rock", "Paper", "Scissors"}

RoShamBo(c1, c2) == [kind |-> "RoShamBo", p1 |-> c1, p2 |-> c2]

Msg(s) == [tag |-> "Msg", s |-> s]

\* A third capability, to exercise what Play allows a hook to do: a Tally
\* counts in the game the events its hook has handled, and the hook stamps
\* each event with the count. Its event is the k-th note, stamped n
Note(k, n) == [tag |-> "Note", k |-> k, n |-> n]

Tally_default == [kind |-> "Tally", seen |-> 0]

Unit == [tag |-> "()"]

Player == {"X", "O"}

Player_next(p) == IF p = "X" THEN "O" ELSE "X"

Pos(col, row) == [tag |-> "Pos", col |-> col, row |-> row]

Pos_index(pos) == (pos.row * BOARD_SIZE) + pos.col

Pos_flip_row(pos) == Pos(pos.col, BOARD_SIZE - pos.row - 1)

InvalidMove == [tag |-> "Err", e |-> "InvalidMove"]

Ok(v) == [tag |-> "Ok", v |-> v]

\* the board is row-major; tile i of the source is element i + 1 here
TicTacToe_default ==
  [kind |-> "TicTacToe", current_player |-> "X",
   board |-> [i \in 1..(BOARD_SIZE * BOARD_SIZE) |-> "None"], outcome |-> None]

----------------------------------------------------------------------------
(* The machine a call runs on: the cells, whether the call is still running *)
(* (ok = FALSE once it has panicked; a panicked call does nothing more),    *)
(* the event in hand, the lines printed, the value returned, and for a      *)
(* coroutine body its run record, the airlock and how the poll ended.       *)

Mach(st, ev) ==
  [st |-> st, ok |-> TRUE, ev |-> ev, out |-> <<>>, val |-> None,
   run |-> None, air |-> None, ret |-> "None"]

\* a State that is born started
State_from_started(game) == [is_in_progress |-> TRUE, game |-> game, borrow |-> 0]

State_from(game) == [is_in_progress |-> FALSE, game |-> game, borrow |-> 0]

\* Host::new: a fresh cell, and the handle to it
Host_new(m, game) ==
  [m EXCEPT !.st = Append(m.st, State_from(game)), !.val = [cell |-> Len(m.st) + 1]]

\* clone as a deep copy: a new cell holding a copy of the State
clone_deep(m, h) ==
  [m EXCEPT !.st = Append(m.st, [m.st[h.cell] EXCEPT !.borrow = 0]),
            !.val = [cell |-> Len(m.st) + 1]]

\* Host::clone: an Rc clone, another handle to the same cell
clone(m, h) == [m EXCEPT !.val = [cell |-> h.cell]]

\* borrow_game: RefCell::borrow panics iff the cell is mutably borrowed
\* a shared borrow granted whatever the borrow state
borrow_game_unchecked(m, c) ==
  IF ~m.ok THEN m
  ELSE IF m.st[c].borrow < 0 THEN m
  ELSE [m EXCEPT !.st[c].borrow = @ + 1]

borrow_game(m, c) ==
  IF ~m.ok THEN m
  ELSE IF m.st[c].borrow < 0 THEN [m EXCEPT !.ok = FALSE]
  ELSE [m EXCEPT !.st[c].borrow = @ + 1]

\* borrow_game_mut that hands out the RefMut whatever the borrow count
borrow_game_mut_unchecked(m, c) ==
  IF ~m.ok THEN m ELSE [m EXCEPT !.st[c].borrow = -1]

\* borrow_game_mut that takes the cell over before it panics
borrow_game_mut_steal(m, c) ==
  IF ~m.ok THEN m
  ELSE IF m.st[c].borrow # 0 THEN [m EXCEPT !.ok = FALSE, !.st[c].borrow = -1]
  ELSE [m EXCEPT !.st[c].borrow = -1]

\* borrow_game_mut that panics when any cell of the program is borrowed
borrow_game_mut_global(m, c) ==
  IF ~m.ok THEN m
  ELSE IF \E d \in 1..Len(m.st) : m.st[d].borrow # 0 THEN [m EXCEPT !.ok = FALSE]
  ELSE [m EXCEPT !.st[c].borrow = -1]

\* borrow_game_mut: RefCell::borrow_mut panics iff the cell is borrowed at all
borrow_game_mut(m, c) ==
  IF ~m.ok THEN m
  ELSE IF m.st[c].borrow # 0 THEN [m EXCEPT !.ok = FALSE]
  ELSE [m EXCEPT !.st[c].borrow = -1]

\* the Ref goes out of scope
drop_Ref(m, c) == IF ~m.ok THEN m ELSE [m EXCEPT !.st[c].borrow = @ - 1]

\* the RefMut goes out of scope
drop_RefMut(m, c) == IF ~m.ok THEN m ELSE [m EXCEPT !.st[c].borrow = 0]

\* a callback that hands out a reference into the cell instead of a copy
copy_game_alias(m, c) == IF ~m.ok THEN m ELSE [m EXCEPT !.val = [ref |-> c]]

\* |game| *game  and  |game| game.clone()
copy_game(m, c) == IF ~m.ok THEN m ELSE [m EXCEPT !.val = m.st[c].game]

\* RoShamBo::handle_event prints the message and leaves game and event alone
RoShamBo_handle_event(m, c) == [m EXCEPT !.out = Append(@, m.ev.s)]

\* Tally::handle_event(&mut self, event): self.seen += 1; event.n = self.seen
Tally_handle_event(m, c) ==
  [m EXCEPT !.st[c].game.seen = @ + 1, !.ev.n = m.st[c].game.seen + 1]

\* Play::handle_event as TicTacToe has it: the default, which does nothing
Default_handle_event(m, c) == m

\* game.handle_event(&mut event), by the type of the game
handle_event(m, c) ==
  IF ~m.ok THEN m
  ELSE IF m.st[c].game.kind = "RoShamBo" THEN RoShamBo_handle_event(m, c)
  ELSE IF m.st[c].game.kind = "Tally" THEN Tally_handle_event(m, c)
  ELSE Default_handle_event(m, c)

\* the tiles of a line, in the order TilesInLine visits them
Line_tiles(line) ==
  [offset \in 1..BOARD_SIZE |->
     CASE line[1] = "Row" -> Pos(offset - 1, line[2])
       [] line[1] = "Col" -> Pos(line[2], offset - 1)
       [] line[1] = "Diagonal" ->
            IF line[2] THEN Pos_flip_row(Pos(offset - 1, offset - 1))
            ELSE Pos(offset - 1, offset - 1)]

TicTacToe_tile(g, pos) == g.board[Pos_index(pos) + 1]

RECURSIVE check_line_from(_, _, _, _)
check_line_from(g, tiles, i, owner) ==
  IF i > Len(tiles) THEN owner
  ELSE LET tile == TicTacToe_tile(g, tiles[i]) IN
    IF tile = "None" \/ (owner # "None" /\ tile # owner) THEN "None"
    ELSE check_line_from(g, tiles, i + 1, IF owner = "None" THEN tile ELSE owner)

\* TicTacToe::check_line
TicTacToe_check_line(g, line) == check_line_from(g, Line_tiles(line), 1, "None")

\* the lines in the order check_outcome's generator yields them
Lines ==
  <<<<"Row", 0>>, <<"Col", 0>>, <<"Row", 1>>, <<"Col", 1>>, <<"Row", 2>>,
    <<"Col", 2>>, <<"Diagonal", FALSE>>, <<"Diagonal", TRUE>>>>

\* TicTacToe::check_outcome
TicTacToe_check_outcome(g) ==
  LET won == {i \in 1..Len(Lines) : TicTacToe_check_line(g, Lines[i]) # "None"}
      first == CHOOSE i \in won : \A j \in won : i <= j
  IN IF won # {}
     THEN [tag |-> "Win", player |-> TicTacToe_check_line(g, Lines[first]),
           line |-> Lines[first]]
     ELSE IF \A i \in DOMAIN g.board : g.board[i] # "None" THEN [tag |-> "CatsGame"]
     ELSE None

\* |game| game.check_outcome()
check_outcome_txn(m, c) ==
  IF ~m.ok THEN m ELSE [m EXCEPT !.val = TicTacToe_check_outcome(m.st[c].game)]

\* the callback handed to a transaction, by name
transact(f, m, c) ==
  CASE f = "copy_game" -> copy_game(m, c)
    [] f = "handle_event" -> handle_event(m, c)
    [] f = "check_outcome" -> check_outcome_txn(m, c)

\* with_game: transact(self.borrow_game()); the Ref dies with the callback
with_game(m, c, f) == drop_Ref(transact(f, borrow_game(m, c), c), c)

\* with_game_mut: the RefMut is handed to the callback and dies with it
with_game_mut(m, c, f) == drop_RefMut(transact(f, borrow_game_mut(m, c), c), c)

\* Host::game
game(m, c) == with_game(m, c, "copy_game")

\* Host::clone_game
clone_game(m, c) == with_game(m, c, "copy_game")

\* process_event whose RefMut is never dropped
process_event_leak(m, c) == handle_event(borrow_game_mut(m, c), c)

\* process_event that hands the hook a copy of the event
process_event_byvalue(m, c) ==
  LET r == with_game_mut(m, c, "handle_event") IN [r EXCEPT !.ev = m.ev]

\* process_event that does nothing when it is called from inside a coroutine
process_event_reentrant(m, c) ==
  IF m.run # None THEN m ELSE with_game_mut(m, c, "handle_event")

\* process_event under a read transaction
process_event_read(m, c) == with_game(m, c, "handle_event")

\* Host::process_event
process_event(m, c) == with_game_mut(m, c, "handle_event")

NewRun(host) ==
  [host |-> host, status |-> "NotStarted", pc |-> 0, ltr |-> "Ok",
   outcome |-> None, got |-> None, sent |-> None, ncalls |-> 0, nrecv |-> 0]

Err(e) == [tag |-> "Err", e |-> e]

----------------------------------------------------------------------------
(* The Context and the coroutine bodies.  A body is polled from where it    *)
(* stopped (run.pc) up to its next yield_event or its return.               *)

\* Context::yield_event: process_event on the event, then co.yield_(event),
\* which leaves the event in the airlock and suspends
yield_event(b, e) ==
  LET p == process_event([b EXCEPT !.ev = e], b.run.host.cell)
  IN IF ~p.ok THEN p
     ELSE [p EXCEPT !.air = [tag |-> "Yield", val |-> p.ev], !.ret = "Pending",
                    !.run.ncalls = @ + 1, !.run.sent = p.ev]

\* a yield_event that returns the Input of the first resumption ever after
co_resumed_stale(b) ==
  [b EXCEPT !.run.got = IF b.run.got = None THEN b.air.val ELSE b.run.got,
            !.air = None]

\* the pending co.yield_(..).await completes with the Input left in the airlock
co_resumed(b) == [b EXCEPT !.run.got = b.air.val, !.air = None]

\* the ordering #[derive(PartialOrd)] would give: Rock < Paper < Scissors
Choice_partial_cmp_derived(a, b) ==
  LET rank(c) == CASE c = "Rock" -> 0 [] c = "Paper" -> 1 [] c = "Scissors" -> 2
  IN IF rank(a) = rank(b) THEN "Equal"
     ELSE IF rank(a) < rank(b) THEN "Less" ELSE "Greater"

Choice_partial_cmp(a, b) ==
  CASE a = "Rock" /\ b = "Rock" -> "Equal"
    [] a = "Rock" /\ b = "Paper" -> "Less"
    [] a = "Rock" /\ b = "Scissors" -> "Greater"
    [] a = "Paper" /\ b = "Paper" -> "Equal"
    [] a = "Paper" /\ b = "Scissors" -> "Less"
    [] a = "Paper" /\ b = "Rock" -> "Greater"
    [] a = "Scissors" /\ b = "Scissors" -> "Equal"
    [] a = "Scissors" /\ b = "Rock" -> "Less"
    [] a = "Scissors" /\ b = "Paper" -> "Greater"

RoShamBo_outcome(player_1, player_2) ==
  LET o == Choice_partial_cmp(player_1, player_2)
  IN [tag |-> IF o = "Equal" THEN "Tie" ELSE IF o = "Greater" THEN "Win" ELSE "Loss"]

RoShamBo_msg(outcome, player_1, player_2) ==
  CASE outcome.tag = "Tie" -> player_1 \o " ties with " \o player_2 \o "."
    [] outcome.tag = "Win" -> player_1 \o " beats " \o player_2 \o "."
    [] outcome.tag = "Loss" -> player_2 \o " beats " \o player_1 \o "."

\* RoShamBo::play without its "Sham!"
RoShamBo_play_short(b) ==
  IF b.run.pc = 0 THEN [yield_event(b, Msg("Ro!")) EXCEPT !.run.pc = 1]
  ELSE LET a == co_resumed(b) IN
    IF b.run.pc = 1 THEN [yield_event(a, Msg("Bo!")) EXCEPT !.run.pc = 3]
    ELSE IF b.run.pc = 3 THEN
      LET g == game(a, a.run.host.cell)
          outcome == RoShamBo_outcome(g.val.p1, g.val.p2)
          msg == RoShamBo_msg(outcome, g.val.p1, g.val.p2)
      IN IF ~g.ok THEN g
         ELSE [yield_event([g EXCEPT !.run.outcome = outcome], Msg(msg))
                 EXCEPT !.run.pc = 4]
    ELSE [a EXCEPT !.ret = "Ready", !.val = a.run.outcome]

\* RoShamBo::play; pc counts the yield_event calls made so far
RoShamBo_play(b) ==
  IF b.run.pc = 0 THEN [yield_event(b, Msg("Ro!")) EXCEPT !.run.pc = 1]
  ELSE LET a == co_resumed(b) IN
    IF b.run.pc = 1 THEN [yield_event(a, Msg("Sham!")) EXCEPT !.run.pc = 2]
    ELSE IF b.run.pc = 2 THEN [yield_event(a, Msg("Bo!")) EXCEPT !.run.pc = 3]
    ELSE IF b.run.pc = 3 THEN
      LET g == game(a, a.run.host.cell)
          outcome == RoShamBo_outcome(g.val.p1, g.val.p2)
          msg == RoShamBo_msg(outcome, g.val.p1, g.val.p2)
      IN IF ~g.ok THEN g
         ELSE [yield_event([g EXCEPT !.run.outcome = outcome], Msg(msg))
                 EXCEPT !.run.pc = 4]
    ELSE [a EXCEPT !.ret = "Ready", !.val = a.run.outcome]

\* TicTacToe::take_turn: [game, res]
\* take_turn that passes the turn when the tile is taken
TicTacToe_take_turn_pass(g, pos) ==
  LET index == Pos_index(pos) IN
  IF g.board[index + 1] # "None"
  THEN [game |-> [g EXCEPT !.current_player = Player_next(g.current_player)],
        res |-> "Err"]
  ELSE [game |-> [g EXCEPT !.board[index + 1] = g.current_player,
                           !.current_player = Player_next(g.current_player)],
        res |-> "Ok"]

TicTacToe_take_turn(g, pos) ==
  LET index == Pos_index(pos) IN
  IF g.board[index + 1] # "None" THEN [game |-> g, res |-> "Err"]
  ELSE [game |-> [g EXCEPT !.board[index + 1] = g.current_player,
                           !.current_player = Player_next(g.current_player)],
        res |-> "Ok"]

\* the top of the loop when the body asks by how many States the process
\* has built so far
TicTacToe_ask_global(b) ==
  LET c == b.run.host.cell
      r == drop_Ref(borrow_game(b, c), c)
      p == r.st[c].game.current_player
  IN IF b.run.ltr = "Ok"
     THEN IF ~r.ok THEN r
          ELSE yield_event(r, Ok(IF Len(r.st) > 1 THEN Player_next(p) ELSE p))
     ELSE yield_event(b, InvalidMove)

\* TicTacToe::play, the top of the loop: the next event, then yield_event
TicTacToe_ask(b) ==
  LET c == b.run.host.cell
      r == drop_Ref(borrow_game(b, c), c)
  IN IF b.run.ltr = "Ok"
     THEN IF ~r.ok THEN r ELSE yield_event(r, Ok(r.st[c].game.current_player))
     ELSE yield_event(b, InvalidMove)

\* TicTacToe::play that yields once more between the move and the check of
\* the outcome (pc = 2 there)
TicTacToe_play_split(b) ==
  IF b.run.pc = 0 THEN [TicTacToe_ask(b) EXCEPT !.run.pc = 1]
  ELSE IF b.run.pc = 1 THEN
    LET a == co_resumed(b)
        c == a.run.host.cell
        w == borrow_game_mut(a, c)
        t == TicTacToe_take_turn(w.st[c].game, a.run.got)
        u == drop_RefMut([w EXCEPT !.st[c].game = t.game, !.run.ltr = t.res], c)
    IN IF ~w.ok THEN w
       ELSE IF t.res = "Err" THEN TicTacToe_ask(u)
       ELSE [yield_event(u, Ok(u.st[c].game.current_player)) EXCEPT !.run.pc = 2]
  ELSE
    LET a == [b EXCEPT !.air = None]
        c == a.run.host.cell
        v == with_game(a, c, "check_outcome")
        x == borrow_game_mut(v, c)
        y == drop_RefMut([x EXCEPT !.st[c].game.outcome = v.val], c)
    IN IF ~v.ok THEN v
       ELSE IF v.val # None
         THEN IF ~x.ok THEN x
              ELSE [y EXCEPT !.ret = "Ready", !.val = v.val, !.run.outcome = v.val]
       ELSE [TicTacToe_ask(v) EXCEPT !.run.pc = 1]

\* TicTacToe::play that returns the outcome without storing it in the game
TicTacToe_play_unstored(b) ==
  IF b.run.pc = 0 THEN [TicTacToe_ask(b) EXCEPT !.run.pc = 1]
  ELSE
    LET a == co_resumed(b)
        c == a.run.host.cell
        w == borrow_game_mut(a, c)
        t == TicTacToe_take_turn(w.st[c].game, a.run.got)
        u == drop_RefMut([w EXCEPT !.st[c].game = t.game, !.run.ltr = t.res], c)
        v == with_game(u, c, "check_outcome")
    IN IF ~w.ok THEN w
       ELSE IF t.res = "Err" THEN TicTacToe_ask(u)
       ELSE IF ~v.ok THEN v
       ELSE IF v.val # None
         THEN [v EXCEPT !.ret = "Ready", !.run.outcome = v.val]
       ELSE TicTacToe_ask(v)

\* TicTacToe::play; pc = 0 before the first poll, 1 at the yield_event
TicTacToe_play(b) ==
  IF b.run.pc = 0 THEN [TicTacToe_ask(b) EXCEPT !.run.pc = 1]
  ELSE
    LET a == co_resumed(b)
        c == a.run.host.cell
        w == borrow_game_mut(a, c)
        t == TicTacToe_take_turn(w.st[c].game, a.run.got)
        u == drop_RefMut([w EXCEPT !.st[c].game = t.game, !.run.ltr = t.res], c)
        v == with_game(u, c, "check_outcome")
        x == borrow_game_mut(v, c)
        y == drop_RefMut([x EXCEPT !.st[c].game.outcome = v.val], c)
    IN IF ~w.ok THEN w
       ELSE IF t.res = "Err" THEN TicTacToe_ask(u)
       ELSE IF ~v.ok THEN v
       ELSE IF v.val # None
         THEN IF ~x.ok THEN x
              ELSE [y EXCEPT !.ret = "Ready", !.val = v.val, !.run.outcome = v.val]
       ELSE TicTacToe_ask(v)

\* Tally::play: two notes, unstamped, then the count as the outcome
Tally_play(b) ==
  IF b.run.pc = 0 THEN [yield_event(b, Note(1, 0)) EXCEPT !.run.pc = 1]
  ELSE LET a == co_resumed(b) IN
    IF b.run.pc = 1 THEN [yield_event(a, Note(2, 0)) EXCEPT !.run.pc = 2]
    ELSE LET g == game(a, a.run.host.cell)
         IN IF ~g.ok THEN g
            ELSE [g EXCEPT !.ret = "Ready", !.val = [tag |-> "Seen", n |-> g.val.seen],
                           !.run.outcome = [tag |-> "Seen", n |-> g.val.seen]]

\* Game::play(ctx), by the type of the game
Game_play(b) ==
  IF b.st[b.run.host.cell].game.kind = "RoShamBo" THEN RoShamBo_play(b)
  ELSE IF b.st[b.run.host.cell].game.kind = "Tally" THEN Tally_play(b)
  ELSE TicTacToe_play(b)

\* play that checks the cell with try_borrow
play_try_borrow(m, h) ==
  IF m.st[h.cell].borrow < 0 THEN [m EXCEPT !.val = Err("InUse")]
  ELSE IF m.st[h.cell].is_in_progress THEN [m EXCEPT !.val = Err("AlreadyStarted")]
  ELSE LET k == clone(m, h) IN [k EXCEPT !.val = Ok(NewRun(k.val))]

\* play whose failed try_borrow_mut leaves a borrow behind
play_latch(m, h) ==
  IF m.st[h.cell].borrow # 0
  THEN [m EXCEPT !.val = Err("InUse"),
                 !.st[h.cell].borrow = IF @ > 0 THEN @ + 1 ELSE @]
  ELSE IF m.st[h.cell].is_in_progress THEN [m EXCEPT !.val = Err("AlreadyStarted")]
  ELSE LET k == clone(m, h) IN [k EXCEPT !.val = Ok(NewRun(k.val))]

\* play that returns with its try_borrow_mut guard still alive
play_keep_guard(m, h) ==
  IF m.st[h.cell].borrow # 0 THEN [m EXCEPT !.val = Err("InUse")]
  ELSE IF m.st[h.cell].is_in_progress THEN [m EXCEPT !.val = Err("AlreadyStarted")]
  ELSE LET k == clone(m, h)
       IN [k EXCEPT !.st[h.cell].borrow = -1, !.val = Ok(NewRun(k.val))]

\* play that sets the started flag when it succeeds
play_marks(m, h) ==
  IF m.st[h.cell].borrow # 0 THEN [m EXCEPT !.val = Err("InUse")]
  ELSE IF m.st[h.cell].is_in_progress THEN [m EXCEPT !.val = Err("AlreadyStarted")]
  ELSE LET k == clone(m, h)
       IN [k EXCEPT !.st[h.cell].is_in_progress = TRUE, !.val = Ok(NewRun(k.val))]

\* play that polls the body once and throws its first event away
play_eager(m, h) ==
  IF m.st[h.cell].borrow # 0 THEN [m EXCEPT !.val = Err("InUse")]
  ELSE IF m.st[h.cell].is_in_progress THEN [m EXCEPT !.val = Err("AlreadyStarted")]
  ELSE LET k == clone(m, h)
           b == Game_play([k EXCEPT !.run = NewRun(k.val)])
       IN [b EXCEPT !.val = Ok(b.run), !.out = <<>>]

\* Host::play: try_borrow_mut, the started flag, then Gen::new(run), which
\* builds the Context (a clone of the handle) and the body's future unstarted
play(m, h) ==
  IF m.st[h.cell].borrow # 0 THEN [m EXCEPT !.val = Err("InUse")]
  ELSE IF m.st[h.cell].is_in_progress THEN [m EXCEPT !.val = Err("AlreadyStarted")]
  ELSE LET k == clone(m, h) IN [k EXCEPT !.val = Ok(NewRun(k.val))]

----------------------------------------------------------------------------
(* The driver. *)

Running == last.res # "panic"

\* what the driver sees of a call: the operation, the handle, guard or
\* coroutine it was made on, its argument, how it ended, what it returned and
\* what it printed
Result(op, h, m) ==
  [op |-> op, h |-> h, arg |-> None, res |-> IF m.ok THEN "Ok" ELSE "panic",
   val |-> IF m.ok THEN m.val ELSE None, out |-> m.out]

KindOf(c) == cells[c].game.kind

RoShamBoGames == {RoShamBo(c1, c2) : c1 \in Choice, c2 \in Choice}

\* the games the driver of Spec starts from: a tie, a loss and a win
NewGames == {RoShamBo("Rock", c2) : c2 \in Choice}

\* what the driver passes to resume_with: () for RoShamBo, a Pos for TicTacToe
Inputs(kind) ==
  IF kind \in {"RoShamBo", "Tally"} THEN {Unit}
  ELSE {Pos(i % BOARD_SIZE, i \div BOARD_SIZE) :
          i \in 0..((IF MaxPos < BOARD_SIZE * BOARD_SIZE THEN MaxPos
                     ELSE BOARD_SIZE * BOARD_SIZE) - 1)}

\* the events the driver replays through process_event
DriverEvents(kind) ==
  IF kind = "RoShamBo" THEN {Msg("Ro!"), Msg("Bo!")}
  ELSE IF kind = "Tally" THEN {Note(1, 0), Note(2, 0)}
  ELSE {Ok("O"), InvalidMove}

\* what the driver writes through a write guard: player 2's choice of a
\* RoShamBo, a fresh board over a TicTacToe
DriverWrites(g) ==
  IF g.kind = "RoShamBo" THEN {[g EXCEPT !.p2 = c] : c \in Choice}
  ELSE {TicTacToe_default}

\* a program around one Host:  let host = Host::new(game);
InitWith(games) ==
  \E g \in games :
    LET m == Host_new(Mach(<<>>, None), g) IN
      /\ cells = m.st
      /\ hosts = <<m.val>>
      /\ txns = <<>>
      /\ runs = <<>>
      /\ kept = <<>>
      /\ last = [Result("new", 1, m) EXCEPT !.arg = g]

Init == InitWith(NewGames)

\* let another = Host::new(game)
HostNew(g) ==
  /\ Running
  /\ Len(cells) < MaxCells
  /\ LET m == Host_new(Mach(cells, None), g) IN
       /\ cells' = m.st
       /\ hosts' = Append(hosts, m.val)
       /\ last' = [Result("new", Len(hosts) + 1, m) EXCEPT !.arg = g]
  /\ UNCHANGED <<txns, runs, kept>>

\* let other = host.clone()
Clone(i) ==
  /\ Running
  /\ Len(hosts) < MaxHosts
  /\ LET m == clone(Mach(cells, None), hosts[i]) IN
       /\ cells' = m.st
       /\ hosts' = Append(hosts, m.val)
       /\ last' = Result("clone", Len(hosts) + 1, m)
  /\ UNCHANGED <<txns, runs, kept>>

\* let co = host.play()
Play(i) ==
  /\ Running
  /\ Len(runs) < MaxRuns
  /\ LET m == play(Mach(cells, None), hosts[i]) IN
       /\ cells' = m.st
       /\ runs' = IF m.val.tag = "Ok" THEN Append(runs, m.val.v) ELSE runs
       /\ last' = [op |-> "play", h |-> i, arg |-> None, res |-> m.val.tag,
                   val |-> IF m.val.tag = "Ok" THEN None ELSE m.val, out |-> m.out]
  /\ UNCHANGED <<hosts, txns, kept>>

\* a guard is opened and kept: borrow_game / borrow_game_mut return it, with_game /
\* with_game_mut hand it to the callback, which is now running
Open(i, api) ==
  /\ Running
  /\ Len(txns) < MaxTxns
  /\ LET c == hosts[i].cell
         m == IF api \in {"borrow_game", "with_game"}
              THEN borrow_game(Mach(cells, None), c)
              ELSE borrow_game_mut(Mach(cells, None), c)
     IN /\ cells' = m.st
        /\ txns' = IF m.ok
                   THEN Append(txns, [write |-> api \notin {"borrow_game", "with_game"},
                                      cell |-> c])
                   ELSE txns
        /\ last' = Result(api, i, m)
  /\ UNCHANGED <<hosts, runs, kept>>

BorrowGame(i) == Open(i, "borrow_game")

BorrowGameMut(i) == Open(i, "borrow_game_mut")

WithGame(i) == Open(i, "with_game")

WithGameMut(i) == Open(i, "with_game_mut")

IsWrite(t) == t.write

\* the guard is dropped, the callback returns
Release(k) ==
  /\ Running
  /\ k \in 1..Len(txns)
  /\ LET t == txns[k]
         m == IF IsWrite(t) THEN drop_RefMut(Mach(cells, None), t.cell)
              ELSE drop_Ref(Mach(cells, None), t.cell)
     IN /\ cells' = m.st
        /\ last' = Result("release", k, m)
  /\ txns' = [j \in 1..(Len(txns) - 1) |-> IF j < k THEN txns[j] ELSE txns[j + 1]]
  /\ UNCHANGED <<hosts, runs, kept>>

\* *guard = value, through a RefMut the driver holds
Write(k, g) ==
  /\ Running
  /\ k \in 1..Len(txns)
  /\ IsWrite(txns[k])
  /\ g \in DriverWrites(cells[txns[k].cell].game)
  /\ g # cells[txns[k].cell].game
  /\ cells' = [cells EXCEPT ![txns[k].cell].game = g]
  /\ last' = [op |-> "write", h |-> k, arg |-> g, res |-> "Ok", val |-> g, out |-> <<>>]
  /\ UNCHANGED <<hosts, txns, runs, kept>>

\* host.game()
GameCopy(i) ==
  /\ Running
  /\ KindOf(hosts[i].cell) = "RoShamBo"
  /\ LET m == game(Mach(cells, None), hosts[i].cell) IN
       /\ cells' = m.st
       /\ last' = Result("game", i, m)
  /\ UNCHANGED <<hosts, txns, runs, kept>>

\* host.clone_game()
CloneGame(i) ==
  /\ Running
  /\ KindOf(hosts[i].cell) = "RoShamBo"
  /\ LET m == clone_game(Mach(cells, None), hosts[i].cell) IN
       /\ cells' = m.st
       /\ last' = Result("clone_game", i, m)
  /\ UNCHANGED <<hosts, txns, runs, kept>>

\* host.process_event(&mut event)
ProcessEvent(i, e) ==
  /\ Running
  /\ e \in DriverEvents(KindOf(hosts[i].cell))
  /\ LET m == process_event(Mach(cells, e), hosts[i].cell) IN
       /\ cells' = m.st
       /\ last' = [Result("process_event", i, m) EXCEPT !.arg = e, !.val = m.ev]
  /\ UNCHANGED <<hosts, txns, runs, kept>>

\* Gen::resume_with on a generator that has not completed: the Input goes
\* into the airlock and the body is polled once; the airlock then holds the
\* event it yielded, or the body has returned its Outcome
Poll(r, input) ==
  /\ runs[r].nrecv < MaxResumes
  /\ LET b == Game_play([Mach(cells, None) EXCEPT
                           !.run = runs[r],
                           !.air = [tag |-> "Resume", val |-> input]])
     IN /\ cells' = b.st
        /\ runs' = IF ~b.ok THEN runs
                   ELSE IF b.ret = "Pending"
                   THEN [runs EXCEPT ![r] = [b.run EXCEPT
                           !.status = "AwaitingInput", !.nrecv = @ + 1]]
                   ELSE [runs EXCEPT ![r] = [b.run EXCEPT !.status = "Completed"]]
        /\ last' = [op |-> "resume", h |-> r, arg |-> input,
                    res |-> IF ~b.ok THEN "panic"
                            ELSE IF b.ret = "Pending" THEN "Yielded"
                            ELSE "Complete",
                    val |-> IF ~b.ok THEN None
                            ELSE IF b.ret = "Pending" THEN b.air.val
                            ELSE b.val,
                    out |-> b.out]

\* resume_with that polls the body whether or not it has completed
Resume_unchecked(r, input) ==
  /\ Running
  /\ r \in 1..Len(runs)
  /\ input \in Inputs(KindOf(runs[r].host.cell))
  /\ Poll(r, input)
  /\ UNCHANGED <<hosts, txns, kept>>

\* co.resume_with(input); a generator that has completed panics when it is
\* resumed
Resume(r, input) ==
  /\ Running
  /\ r \in 1..Len(runs)
  /\ input \in Inputs(KindOf(runs[r].host.cell))
  /\ IF runs[r].status = "Completed"
     THEN /\ last' = [op |-> "resume", h |-> r, arg |-> input, res |-> "panic",
                      val |-> None, out |-> <<>>]
          /\ UNCHANGED <<cells, runs>>
     ELSE Poll(r, input)
  /\ UNCHANGED <<hosts, txns, kept>>

\* a drop of the coroutine that puts the game back to a fresh board
DropRun_rollback(r) ==
  /\ Running
  /\ r \in 1..Len(runs)
  /\ runs' = [j \in 1..(Len(runs) - 1) |-> IF j < r THEN runs[j] ELSE runs[j + 1]]
  /\ cells' = [cells EXCEPT ![runs[r].host.cell].game = TicTacToe_default]
  /\ last' = [op |-> "drop", h |-> r, arg |-> None, res |-> "Ok", val |-> None, out |-> <<>>]
  /\ UNCHANGED <<hosts, txns, kept>>

\* the coroutine goes out of scope: its Context and its body are gone, and
\* the coroutines obtained after it move up one place
DropRun(r) ==
  /\ Running
  /\ r \in 1..Len(runs)
  /\ runs' = [j \in 1..(Len(runs) - 1) |-> IF j < r THEN runs[j] ELSE runs[j + 1]]
  /\ last' = [op |-> "drop", h |-> r, arg |-> None, res |-> "Ok", val |-> None, out |-> <<>>]
  /\ UNCHANGED <<cells, hosts, txns, kept>>

Handle ==
  \/ \E i \in 1..Len(hosts) : Clone(i)
  \/ \E i \in 1..Len(hosts) : Play(i)
  \/ \E i \in 1..Len(hosts) : BorrowGame(i)
  \/ \E i \in 1..Len(hosts) : BorrowGameMut(i)
  \/ \E i \in 1..Len(hosts) : WithGame(i)
  \/ \E i \in 1..Len(hosts) : WithGameMut(i)
  \/ \E k \in 1..Len(txns) : Release(k)
  \/ \E k \in 1..Len(txns) : \E g \in DriverWrites(cells[txns[k].cell].game) : Write(k, g)
  \/ \E i \in 1..Len(hosts) : \E e \in DriverEvents(KindOf(hosts[i].cell)) : ProcessEvent(i, e)
  \/ \E r \in 1..Len(runs) : \E x \in Inputs(KindOf(runs[r].host.cell)) : Resume(r, x)
  \/ \E r \in 1..Len(runs) : DropRun(r)

\* a program over a RoShamBo host
Next ==
  \/ \E i \in 1..Len(hosts) : GameCopy(i)
  \/ \E i \in 1..Len(hosts) : CloneGame(i)
  \/ Handle

Spec == Init /\ [][Next]_vars

\* the TicTacToe program:  let host = Host::new(TicTacToe::default());
\* let co = host.play().unwrap();
InitTTT ==
  LET m == Host_new(Mach(<<>>, None), TicTacToe_default)
      p == play(m, m.val)
  IN /\ cells = p.st
     /\ hosts = <<m.val>>
     /\ txns = <<>>
     /\ runs = <<p.val.v>>
     /\ kept = <<>>
     /\ last = [op |-> "play", h |-> 1, arg |-> None, res |-> p.val.tag, val |-> None,
                out |-> p.out]

\* its driver resumes the coroutine, clones the host, reads the game or
\* replaces it with a fresh one under a guard, and may drop the coroutine
NextTTT ==
  \/ \E r \in 1..Len(runs) : \E x \in Inputs(KindOf(runs[r].host.cell)) : Resume(r, x)
  \/ \E i \in 1..Len(hosts) : Clone(i)
  \/ \E i \in 1..Len(hosts) : WithGame(i)
  \/ \E i \in 1..Len(hosts) : WithGameMut(i)
  \/ \E k \in 1..Len(txns) : Release(k)
  \/ \E k \in 1..Len(txns) : \E g \in DriverWrites(cells[txns[k].cell].game) : Write(k, g)
  \/ \E r \in 1..Len(runs) : DropRun(r)

SpecTTT == InitTTT /\ [][NextTTT]_vars

\* a program over several hosts: it builds hosts and clones them, holds guards
\* obtained through its first handle, and meanwhile calls game(),
\* process_event() and play() through every handle
NextHosts ==
  \/ \E g \in NewGames : HostNew(g)
  \/ \E i \in 1..Len(hosts) : Clone(i)
  \/ BorrowGame(1)
  \/ BorrowGameMut(1)
  \/ \E k \in 1..Len(txns) : Release(k)
  \/ \E i \in 1..Len(hosts) : GameCopy(i)
  \/ \E i \in 1..Len(hosts) : CloneGame(i)
  \/ \E i \in 1..Len(hosts) : \E e \in DriverEvents(KindOf(hosts[i].cell)) : ProcessEvent(i, e)
  \/ \E i \in 1..Len(hosts) : Play(i)

SpecHosts == Init /\ [][NextHosts]_vars

\* two sessions of one game, as it_works runs one test_ro_sham_bo after
\* another:  let host = Host::new(game); let co = host.play().unwrap();  twice
InitReplay ==
  \E g \in RoShamBoGames \cup {TicTacToe_default} :
    \E m1 \in {Host_new(Mach(<<>>, None), g)} :
    \E p1 \in {play(m1, m1.val)} :
    \E m2 \in {Host_new(Mach(p1.st, None), g)} :
    \E p2 \in {play(m2, m2.val)} :
       /\ cells = p2.st
       /\ hosts = <<m1.val, m2.val>>
       /\ txns = <<>>
       /\ runs = <<p1.val.v, p2.val.v>>
       /\ kept = <<>>
       /\ last = [op |-> "play", h |-> 2, arg |-> None, res |-> p2.val.tag,
                   val |-> None, out |-> p2.out]

\* the two coroutines are resumed in turn: the first with an Input of the
\* driver's choice, then the second with the Input the first has just got
Replay(r, x) ==
  /\ r = (IF last.op = "resume" /\ last.h = 1 THEN 2 ELSE 1)
  /\ r = 2 => x = last.arg
  /\ Resume(r, x)

NextReplay ==
  \E r \in 1..Len(runs) : \E x \in Inputs(KindOf(runs[r].host.cell)) : Replay(r, x)

SpecReplay == InitReplay /\ [][NextReplay]_vars

\* tiles claimed on all the boards together
Placed ==
  Cardinality({<<c, i>> \in (1..Len(cells)) \X (1..(BOARD_SIZE * BOARD_SIZE)) :
                 cells[c].game.board[i] # "None"})

\* a program that gives games up: it resumes the coroutine, reads and writes
\* under guards, drops the coroutine at any point before MaxPlaced tiles are
\* claimed, and after that plays again, on the same host or on one built by
\* another Host::new
NextDrop ==
  \/ /\ Placed < MaxPlaced
     /\ \E r \in 1..Len(runs) : \E x \in Inputs(KindOf(runs[r].host.cell)) : Resume(r, x)
  \/ \E r \in 1..Len(runs) : DropRun(r)
  \/ \E i \in 1..Len(hosts) : WithGame(i)
  \/ \E i \in 1..Len(hosts) : WithGameMut(i)
  \/ \E k \in 1..Len(txns) : Release(k)
  \/ runs = <<>> /\ HostNew(TicTacToe_default)
  \/ runs = <<>> /\ \E i \in 1..Len(hosts) : Play(i)

SpecDrop == InitTTT /\ [][NextDrop]_vars

-----------------------------------------------------------------------------
\* The terminal program of examples/tui: main.rs drives one TicTacToe game
\* after another from the key presses that view.rs turns into events.

KeyCode == {"Esc", "Enter", "Right", "Left", "Down", "Up", "Char"}

NUM_TILES == <<3, 3>>

saturating_add(x) == IF x = 65535 THEN x ELSE x + 1

saturating_sub(x) == IF x = 0 THEN 0 ELSE x - 1

Min(x, y) == IF x < y THEN x ELSE y

\* View::new, the part of the View that decides events
View_new == [selected_tile |-> <<1, 1>>]

select_tile(view, tile) ==
  [view EXCEPT !.selected_tile = <<Min(tile[1], saturating_sub(NUM_TILES[1])),
                                   Min(tile[2], saturating_sub(NUM_TILES[2]))>>]

\* view::Event
Quit == [tag |-> "Quit"]

NewGame == [tag |-> "NewGame"]

TakeTurn(col, row) == [tag |-> "TakeTurn", col |-> col, row |-> row]

handle_game_key_press(view, code) ==
  LET t == view.selected_tile IN
  IF code = "Esc" THEN [view |-> view, event |-> Quit]
  ELSE IF code = "Enter" THEN [view |-> view, event |-> TakeTurn(t[1], t[2])]
  ELSE [view |-> select_tile(view,
                   IF code = "Right" THEN <<saturating_add(t[1]), t[2]>>
                   ELSE IF code = "Left" THEN <<saturating_sub(t[1]), t[2]>>
                   ELSE IF code = "Down" THEN <<t[1], saturating_add(t[2])>>
                   ELSE IF code = "Up" THEN <<t[1], saturating_sub(t[2])>>
                   ELSE t),
        event |-> None]

handle_game_over_key_press(view, code) ==
  [view |-> view,
   event |-> IF code = "Esc" THEN Quit
             ELSE IF code = "Enter" THEN NewGame
             ELSE None]

\* View::wait_for_input, one turn of its loop: the key press that
\* event::read() returned goes to the handler the game's outcome selects; an
\* event of None means that the loop goes round and reads again
wait_for_input(view, g, code) ==
  IF g.outcome # None
  THEN handle_game_over_key_press(view, code)
  ELSE handle_game_key_press(view, code)

\* Pos::try_from((col, row))
Pos_try_from(col, row) ==
  IF col >= BOARD_SIZE \/ row >= BOARD_SIZE THEN InvalidMove
  ELSE Ok(Pos(col, row))

\* main at the top of 'new_game: a View, a Host of its own over the default
\* game, its coroutine, pos and last_outcome; the Host and the coroutine of
\* the game before are dropped, and their State with them
Main_new_game ==
  LET m == Host_new(Mach(<<>>, None), TicTacToe_default)
      p == play(m, m.val)
  IN /\ cells' = p.st
     /\ hosts' = <<m.val>>
     /\ runs' = <<p.val.v>>
     /\ kept' = <<[pc |-> "resume", pos |-> Pos(0, 0), last_outcome |-> None,
                   view |-> View_new]>>

InitTui ==
  LET m == Host_new(Mach(<<>>, None), TicTacToe_default)
      p == play(m, m.val)
  IN /\ cells = p.st
     /\ hosts = <<m.val>>
     /\ txns = <<>>
     /\ runs = <<p.val.v>>
     /\ kept = <<[pc |-> "resume", pos |-> Pos(0, 0), last_outcome |-> None,
                  view |-> View_new]>>
     /\ last = [op |-> "play", h |-> 1, arg |-> None, res |-> p.val.tag, val |-> None,
                out |-> p.out]

\* last_outcome = match co.resume_with(pos) { Yielded(_) => None,
\*                                            Complete(o) => Some(o) }
TuiResume ==
  /\ Running
  /\ kept[1].pc = "resume"
  /\ IF runs[1].status = "Completed"
     THEN /\ last' = [op |-> "resume", h |-> 1, arg |-> kept[1].pos, res |-> "panic",
                      val |-> None, out |-> <<>>]
          /\ UNCHANGED <<cells, runs>>
     ELSE Poll(1, kept[1].pos)
  /\ kept' = <<[kept[1] EXCEPT
                 !.pc = "open",
                 !.last_outcome = IF last'.res = "Complete" THEN last'.val ELSE None]>>
  /\ UNCHANGED <<hosts, txns>>

\* host.with_game(|game| view.wait_for_input(&mut out, &game)) up to the first
\* event::read(): with_game takes its Ref on the game, and the program waits
\* for a key with the Ref alive
TuiOpen ==
  /\ Running
  /\ kept[1].pc = "open"
  /\ LET c == hosts[1].cell
         m == borrow_game(Mach(cells, None), c)
     IN /\ cells' = m.st
        /\ txns' = IF m.ok THEN Append(txns, [write |-> FALSE, cell |-> c]) ELSE txns
        /\ kept' = IF m.ok THEN <<[kept[1] EXCEPT !.pc = "wait"]>> ELSE kept
        /\ last' = Result("with_game", 1, m)
  /\ UNCHANGED <<hosts, runs>>

\* event::read() returns the key press code. With no event the selection may
\* move and wait_for_input reads again, the Ref still alive. With an event
\* wait_for_input and with_game return, the Ref is dropped, and main matches:
\*   TakeTurn(col, row) => pos = (col, row).try_into().expect(..), then the
\*                         test of the while loop,
\*   NewGame => continue 'new_game,  Quit => break 'new_game
TuiKey(code) ==
  /\ Running
  /\ kept[1].pc = "wait"
  /\ code \in KeyCode
  /\ LET c == hosts[1].cell
         w == wait_for_input(kept[1].view, cells[c].game, code)
         d == drop_Ref(Mach(cells, None), c)
         p == IF w.event # None /\ w.event.tag = "TakeTurn"
              THEN Pos_try_from(w.event.col, w.event.row)
              ELSE None
     IN IF w.event = None
        THEN /\ kept' = <<[kept[1] EXCEPT !.view = w.view]>>
             /\ last' = [op |-> "key", h |-> 1, arg |-> code, res |-> "Ok",
                         val |-> None, out |-> <<>>]
             /\ UNCHANGED <<cells, hosts, runs, txns>>
        ELSE /\ txns' = <<>>
             /\ last' = [op |-> "wait_for_input", h |-> 1, arg |-> code,
                         res |-> IF w.event.tag = "TakeTurn" /\ p.tag # "Ok"
                                 THEN "panic" ELSE "Ok",
                         val |-> w.event, out |-> <<>>]
             /\ IF w.event = Quit
                THEN /\ cells' = d.st
                     /\ kept' = <<[kept[1] EXCEPT !.pc = "done", !.view = w.view]>>
                     /\ UNCHANGED <<hosts, runs>>
                ELSE IF w.event = NewGame THEN Main_new_game
                ELSE IF p.tag # "Ok"
                THEN /\ cells' = d.st
                     /\ UNCHANGED <<hosts, runs, kept>>
                ELSE IF kept[1].last_outcome = None
                THEN /\ cells' = d.st
                     /\ kept' = <<[kept[1] EXCEPT !.pc = "resume", !.pos = p.v,
                                                  !.view = w.view]>>
                     /\ UNCHANGED <<hosts, runs>>
                ELSE Main_new_game

NextTui ==
  \/ TuiResume
  \/ TuiOpen
  \/ \E code \in KeyCode : TuiKey(code)

SpecTui == InitTui /\ [][NextTui]_vars

-----------------------------------------------------------------------------
\* A game played, and then played again: the driver resumes a first coroutine
\* and keeps, after the game it started from, every Input it gave and what
\* came back; at some point it builds a second Host from an equal game and
\* resumes its coroutine with the Inputs kept, in order. Meanwhile the first
\* Host, another State, may be written to under a guard.

InitAgain ==
  \E g \in RoShamBoGames \cup {TicTacToe_default} :
    \E m1 \in {Host_new(Mach(<<>>, None), g)} :
    \E p1 \in {play(m1, m1.val)} :
       /\ cells = p1.st
       /\ hosts = <<m1.val>>
       /\ txns = <<>>
       /\ runs = <<p1.val.v>>
       /\ kept = <<[x |-> g, res |-> "new", val |-> None]>>
       /\ last = [op |-> "play", h |-> 1, arg |-> None, res |-> p1.val.tag,
                   val |-> None, out |-> p1.out]

\* resumes of a coroutine so far
Resumes(run) == run.nrecv + (IF run.status = "Completed" THEN 1 ELSE 0)

\* co.resume_with(x) on the latest coroutine: the first with an Input of the
\* driver's choice, which is kept with the result; the second with the next
\* Input kept. The Input of the resume that starts a TicTacToe reaches
\* nobody; the driver passes the default Pos, as main does
Drive(r, x) ==
  /\ Running
  /\ r = Len(runs)
  /\ runs[r].status # "Completed"
  /\ (runs[r].status = "NotStarted" /\ KindOf(runs[r].host.cell) = "TicTacToe") =>
       x = Pos(0, 0)
  /\ r = 2 => /\ Resumes(runs[2]) + 2 <= Len(kept)
              /\ x = kept[Resumes(runs[2]) + 2].x
  /\ Poll(r, x)
  /\ kept' = IF r = 1
             THEN Append(kept, [x |-> x, res |-> last'.res, val |-> last'.val])
             ELSE kept
  /\ UNCHANGED <<hosts, txns>>

\* Host::new on a game equal to the one the first Host was built from, and
\* play() on it
Again ==
  /\ Running
  /\ Len(runs) = 1
  /\ LET m == Host_new(Mach(cells, None), kept[1].x)
         p == play(m, m.val)
     IN /\ cells' = p.st
        /\ hosts' = Append(hosts, m.val)
        /\ runs' = Append(runs, p.val.v)
        /\ last' = [op |-> "play", h |-> 2, arg |-> None, res |-> p.val.tag,
                    val |-> None, out |-> p.out]
  /\ UNCHANGED <<txns, kept>>

NextAgain ==
  \/ \E r \in 1..Len(runs) : \E x \in Inputs(KindOf(runs[r].host.cell)) : Drive(r, x)
  \/ Again
  \/ Len(runs) = 2 /\ WithGameMut(1)
  \/ Len(runs) = 2 /\ \E k \in 1..Len(txns) :
        \E g \in DriverWrites(cells[txns[k].cell].game) : Write(k, g)

SpecAgain == InitAgain /\ [][NextAgain]_vars

-----------------------------------------------------------------------------
\* A server and its replica, as in the comment of Host::process_event: host 1
\* runs the game, host 2 holds an equal game with no run and is sent events
\* through process_event. The replica is sent an event only while the two
\* games are equal, and the server's coroutine is resumed next.

InitHook ==
  \E g \in NewGames \cup {Tally_default} :
    \E m1 \in {Host_new(Mach(<<>>, None), g)} :
    \E p1 \in {play(m1, m1.val)} :
    \E m2 \in {Host_new(Mach(p1.st, None), g)} :
       /\ cells = m2.st
       /\ hosts = <<m1.val, m2.val>>
       /\ txns = <<>>
       /\ runs = <<p1.val.v>>
       /\ kept = <<>>
       /\ last = [Result("new", 2, m2) EXCEPT !.arg = g]

\* the replica has just handled an event
Mirrored == last.op = "process_event" /\ last.h = 2 /\ last.res = "Ok"

SendEvent(i, e) ==
  /\ ~Mirrored
  /\ i = 2 => cells[hosts[1].cell].game = cells[hosts[2].cell].game
  /\ KindOf(hosts[i].cell) = "Tally" => cells[hosts[i].cell].game.seen < MaxSeen
  /\ ProcessEvent(i, e)

NextHook ==
  \/ \E x \in Inputs(KindOf(runs[1].host.cell)) : Resume(1, x)
  \/ \E i \in 1..Len(hosts) : \E e \in DriverEvents(KindOf(hosts[i].cell)) : SendEvent(i, e)
  \/ ~Mirrored /\ WithGame(1)
  \/ ~Mirrored /\ WithGameMut(1)
  \/ ~Mirrored /\ \E k \in 1..Len(txns) : Release(k)

SpecHook == InitHook /\ [][NextHook]_vars

\* let snapshot = host.game()  /  host.clone_game(), which the driver keeps
KeepSnapshot(i, api) ==
  /\ Running
  /\ Len(kept) < MaxKept
  /\ LET c == hosts[i].cell
         m == IF api = "game" THEN game(Mach(cells, None), c)
              ELSE clone_game(Mach(cells, None), c)
     IN /\ cells' = m.st
        /\ kept' = IF m.ok THEN Append(kept, [op |-> api, cell |-> c, val |-> m.val])
                   ELSE kept
        /\ last' = Result(api, i, m)
  /\ UNCHANGED <<hosts, txns, runs>>

KeepGame(i) == KeepSnapshot(i, "game")

KeepCloneGame(i) == KeepSnapshot(i, "clone_game")

\* match host.play() { Ok(co) => .., Err(e) => .. }, the error being kept
KeepPlay(i) ==
  /\ Running
  /\ Len(runs) < MaxRuns
  /\ Len(kept) < MaxKept
  /\ LET m == play(Mach(cells, None), hosts[i]) IN
       /\ cells' = m.st
       /\ runs' = IF m.val.tag = "Ok" THEN Append(runs, m.val.v) ELSE runs
       /\ kept' = IF m.val.tag = "Ok" THEN kept
                  ELSE Append(kept, [op |-> "play", cell |-> hosts[i].cell, val |-> m.val])
       /\ last' = [op |-> "play", h |-> i, arg |-> None, res |-> m.val.tag,
                   val |-> IF m.val.tag = "Ok" THEN None ELSE m.val, out |-> m.out]
  /\ UNCHANGED <<hosts, txns>>

\* a program that keeps what game(), clone_game() and play() return while it
\* opens guards, writes through them and releases them
NextKeep ==
  \/ \E i \in 1..Len(hosts) : KeepGame(i)
  \/ \E i \in 1..Len(hosts) : KeepCloneGame(i)
  \/ \E i \in 1..Len(hosts) : KeepPlay(i)
  \/ \E i \in 1..Len(hosts) : BorrowGame(i)
  \/ \E i \in 1..Len(hosts) : BorrowGameMut(i)
  \/ \E k \in 1..Len(txns) : Release(k)
  \/ \E k \in 1..Len(txns) : \E g \in DriverWrites(cells[txns[k].cell].game) : Write(k, g)

SpecKeep == Init /\ [][NextKeep]_vars

----------------------------------------------------------------------------
(* Properties. *)

\* the guards the driver holds on cell c
DriverGuards(c) == {k \in 1..Len(txns) : txns[k].cell = c}

\* the borrow count those guards account for
DriverBorrow(c) ==
  IF \E k \in DriverGuards(c) : txns[k].write THEN -1
  ELSE Cardinality(DriverGuards(c))

OpenOps == {"borrow_game", "borrow_game_mut", "with_game", "with_game_mut"}

\* the game a read through handle i returns
Seen(i) == cells[hosts[i].cell].game

\* C1: every access is an exclusive transaction, a read inside a read
\* included: at most one transaction is open on a cell in every reachable state
C1_ExclusiveTransactions ==
  \A c \in 1..Len(cells) : Cardinality(DriverGuards(c)) <= 1

\* C2: at most one active run per SharedState: a cell never has two
\* coroutines that were started by play() and have not completed
C2_OneActiveRun ==
  \A c \in 1..Len(cells) :
    Cardinality({r \in 1..Len(runs) :
                   /\ runs[r].host.cell = c
                   /\ runs[r].status \in {"NotStarted", "AwaitingInput"}}) <= 1

\* C3: while a coroutine is suspended at a yield_event or has completed, the
\* only borrows of its cell are the guards the driver itself holds, so an
\* accessor or process_event of the driver panics only against the driver's
\* own guards
C3_NoTransactionAcrossSuspension ==
  \A r \in 1..Len(runs) :
    runs[r].status \in {"AwaitingInput", "Completed"} =>
      LET c == runs[r].host.cell IN
        /\ cells[c].borrow = DriverBorrow(c)
        /\ (/\ last.op \in OpenOps \cup {"process_event"}
            /\ hosts[last.h].cell = c
            /\ last.res = "panic") => DriverGuards(c) # {}

C3_Witness ==
  \E r \in 1..Len(runs) :
    /\ runs[r].status = "AwaitingInput"
    /\ last.op = "with_game_mut"
    /\ last.res = "Ok"

\* C4: play() returns Err(InUse) exactly when a guard, read or write, is open
\* on the cell, whether or not a run was started before
C4_InUseIffTransactionOpen ==
  last.op = "play" =>
    ((last.res = "Err" /\ last.val = Err("InUse"))
       <=> cells[hosts[last.h].cell].borrow # 0)

C4_Witness ==
  /\ last.op = "play"
  /\ last.val = Err("InUse")
  /\ Len(runs) > 0
  /\ cells[hosts[last.h].cell].borrow > 0

C5_Step ==
  last'.op = "resume" =>
    LET c == runs[last'.h].host.cell
        g == cells[c].game
        k == runs[last'.h].ncalls + 1
    IN /\ last'.res = "Yielded" =>
            /\ DriverGuards(c) = {}
            /\ cells[c].borrow = 0
            /\ cells'[c].borrow = 0
            /\ runs'[last'.h].ncalls = k
            /\ g.kind = "Tally" =>
                 /\ cells'[c].game.seen = g.seen + 1
                 /\ last'.val = Note(k, g.seen + 1)
                 /\ last'.val # Note(k, 0)
                 /\ last'.out = <<>>
            /\ g.kind = "RoShamBo" =>
                 /\ cells'[c].game = g
                 /\ last'.out = <<last'.val.s>>
       /\ last'.res \in {"Complete", "panic"} =>
            /\ cells'[c].game = g
            /\ last'.out = <<>>

\* C5: a resume that yields has run handle_event exactly once, under a write
\* transaction that is closed when the coroutine suspends: no guard of the
\* driver is open, a Tally has counted one event more, a RoShamBo has printed
\* one line; and the driver receives the event as the hook left it: the k-th
\* note of a Tally arrives stamped with the new count, never unstamped as the
\* body passed it; a resume that completes or panics has not run the hook
C5_HookOncePerYield == [][C5_Step]_vars

C5_Witness ==
  /\ last.op = "resume"
  /\ last.res = "Yielded"
  /\ last.val = Note(2, 3)
  /\ cells[runs[1].host.cell].game = [kind |-> "Tally", seen |-> 3]
  /\ runs[1].sent = Note(2, 3)

\* C6: every resume that yields returns the event of the body's latest
\* yield_event call, and the driver has received as many events as the body
\* has yielded: the k-th event received is the k-th event yielded
C6_EventsInCallOrder ==
  /\ \A r \in 1..Len(runs) : runs[r].ncalls = runs[r].nrecv
  /\ (last.op = "resume" /\ last.res = "Yielded") =>
       LET run == runs[last.h] IN
         /\ last.val = run.sent
         /\ run.nrecv = 1 => last.val = Msg("Ro!")
         /\ run.nrecv = 2 => last.val = Msg("Sham!")
         /\ run.nrecv = 3 => last.val = Msg("Bo!")

C6_Witness ==
  /\ last.op = "resume"
  /\ last.res = "Yielded"
  /\ runs[last.h].nrecv = 4

\* C7: the Input of a resume is what the yield_event it resumes returns to
\* the body, which claims that tile; the Input of the first resume reaches
\* no yield_event
C7_InputsDelivered ==
  (last.op = "resume" /\ last.res \in {"Yielded", "Complete"}) =>
    LET run == runs[last.h] IN
      IF last.res = "Yielded" /\ run.nrecv = 1 THEN run.got = None
      ELSE /\ run.got = last.arg
           /\ TicTacToe_tile(cells[run.host.cell].game, last.arg) # "None"

C7_Witness ==
  /\ last.op = "resume"
  /\ last.res = "Yielded"
  /\ runs[last.h].nrecv = 3
  /\ last.arg = Pos(1, 1)

C8_Step(r) ==
  LET a == runs[r].status
      b == runs'[r].status
      resumed == last'.op = "resume" /\ last'.h = r
  IN /\ a # b =>
          \/ /\ a = "NotStarted" /\ b = "AwaitingInput"
             /\ resumed /\ last'.res = "Yielded" /\ runs[r].nrecv = 0
          \/ /\ a = "AwaitingInput" /\ b = "Completed"
             /\ resumed /\ last'.res = "Complete"
     /\ (resumed /\ last'.res = "Complete") => (a = "AwaitingInput" /\ b = "Completed")
     /\ (resumed /\ a = "Completed") =>
          /\ last'.res = "panic"
          /\ last'.out = <<>>
          /\ cells' = cells
          /\ runs' = runs

\* C8: as long as its coroutine exists, a run goes NotStarted ->
\* AwaitingInput on its first resume, stays AwaitingInput while it yields, and
\* goes to Completed when the body returns; a resume of a Completed run
\* panics, yields nothing, returns no Outcome, runs no hook and leaves the
\* game alone
C8_RunStateMachine ==
  [][last'.op # "drop" => \A r \in 1..Len(runs) : C8_Step(r)]_vars

C8_Witness ==
  /\ last.op = "resume"
  /\ last.res = "panic"
  /\ runs[last.h].status = "Completed"

\* C9: a process_event that returns has run handle_event once on its event
\* and left no borrow behind; one called while a guard is open panics
\* without running handle_event
C9_ProcessEvent ==
  last.op = "process_event" =>
    LET c == hosts[last.h].cell IN
      /\ last.res = "Ok" =>
           /\ last.out = <<last.arg.s>>
           /\ last.val = last.arg
           /\ cells[c].borrow = 0
           /\ DriverGuards(c) = {}
      /\ last.res = "panic" =>
           /\ last.out = <<>>
           /\ DriverGuards(c) # {}
           /\ cells[c].borrow = DriverBorrow(c)

C9_Witness ==
  /\ last.op = "process_event"
  /\ last.res = "Ok"
  /\ last.out = <<"Bo!">>
  /\ \E r \in 1..Len(runs) : runs[r].status = "AwaitingInput"

C10_Shared ==
  /\ \A i, j \in 1..Len(hosts) : Seen(i) = Seen(j)
  /\ last.op = "write" => \A i \in 1..Len(hosts) : Seen(i) = last.val
  /\ (/\ last.op = "resume"
      /\ last.res \in {"Yielded", "Complete"}
      /\ runs[last.h].got # None
      /\ runs[last.h].ltr = "Ok") =>
       \A i \in 1..Len(hosts) :
         TicTacToe_tile(Seen(i), last.arg) = Player_next(Seen(i).current_player)

C10_CloneFrame ==
  \A i \in 1..Len(hosts) :
    Clone(i) => (cells' = cells /\ txns' = txns /\ runs' = runs)

\* C10: the handles made by clone() share one State: all of them read the
\* same game, a write through a guard is what every handle reads, a tile the
\* body claims through its Context is claimed in what every handle reads, and
\* clone() changes neither the cells nor the guards nor the runs
C10_ClonesShareState == []C10_Shared /\ [][C10_CloneFrame]_vars

C10_Witness ==
  /\ last.op = "resume"
  /\ last.res = "Yielded"
  /\ runs[last.h].got # None
  /\ runs[last.h].ltr = "Ok"
  /\ Len(hosts) = 2

\* C11: the access check is per cell, not per handle.  While guards obtained
\* through the first handle are open, process_event through any handle of
\* that cell panics, game() through any handle of it panics when a write
\* guard is among them, and play() through any handle of it returns InUse; a
\* call through a handle of a cell built by another Host::new is never
\* rejected.  A clone is a handle of the cell of the handle it was cloned
\* from, Host::new makes a cell no earlier handle has
C11_CheckPerSharedState ==
  /\ \A k \in 1..Len(txns) : txns[k].cell = hosts[1].cell
  /\ last.op = "clone" => \E j \in 1..(last.h - 1) : hosts[j].cell = hosts[last.h].cell
  /\ (last.op = "new" /\ last.h > 1) =>
       \A j \in 1..(last.h - 1) : hosts[j].cell # hosts[last.h].cell
  /\ last.op \in {"process_event", "game", "play", "borrow_game", "borrow_game_mut"} =>
       LET c == hosts[last.h].cell
           G == DriverGuards(c)
           W == {k \in G : txns[k].write}
       IN /\ last.op = "process_event" => (last.res = "panic" <=> G # {})
          /\ last.op = "game" => (last.res = "panic" <=> W # {})
          /\ last.op = "play" => (last.val = Err("InUse") <=> G # {})
          /\ last.op = "borrow_game" => (last.res = "panic" <=> W # {})
          /\ last.op = "borrow_game_mut" =>
               IF last.res = "panic" THEN G # {} ELSE Cardinality(G) = 1
          /\ c # hosts[1].cell => (last.res # "panic" /\ last.val # Err("InUse"))

C11_Witness ==
  /\ Len(cells) = 2
  /\ last.op = "process_event"
  /\ last.res = "panic"
  /\ last.h > 1
  /\ hosts[last.h].cell = hosts[1].cell
  /\ \A k \in 1..Len(txns) : ~txns[k].write

\* the game a value the driver holds reads as: the value itself when it is a
\* copy, the live game when it is a reference into the cell
value_of(v, st) == IF "ref" \in DOMAIN v THEN st[v.ref].game ELSE v

Snapshots == {"game", "clone_game"}

C12_Taken ==
  (last.op \in Snapshots /\ last.res = "Ok") =>
    LET c == hosts[last.h].cell IN
      /\ value_of(last.val, cells) = cells[c].game
      /\ cells[c].borrow = DriverBorrow(c)

C12_Frame ==
  /\ \A k \in 1..Len(kept) :
       kept[k].op \in Snapshots =>
         value_of(kept'[k].val, cells') = value_of(kept[k].val, cells)
  /\ last'.op \in Snapshots => (cells' = cells /\ txns' = txns)

\* C12: game() and clone_game() return the game as it is in the cell when
\* they are called and leave the cell as it was, with no borrow of their own;
\* a snapshot the driver keeps reads the same after every later step, writes
\* to the live game included
C12_SnapshotsAreValues == []C12_Taken /\ [][C12_Frame]_vars

C12_Witness ==
  /\ Len(kept) = 2
  /\ kept[1].op = "game"
  /\ kept[2].op = "clone_game"
  /\ kept[1].val # kept[2].val
  /\ last.op = "write"
  /\ cells[1].game # kept[2].val

\* the accessors that panic on a conflict
Accessors == {"borrow_game", "borrow_game_mut", "game", "clone_game", "process_event"}

\* C13: a call that is rejected (an accessor that panics on an open guard, a
\* play() that returns Err) changes nothing: the cells with their games,
\* started flags and borrow counts, the guards, the handles and the
\* coroutines are what they were, no hook has run, and the rejection is the
\* outcome of that one call
C13_RejectionChangesNothing ==
  [][((last'.op \in Accessors /\ last'.res = "panic")
        \/ (last'.op = "play" /\ last'.res = "Err"))
       => /\ cells' = cells
          /\ txns' = txns
          /\ runs' = runs
          /\ hosts' = hosts
          /\ last'.out = <<>>
          /\ cells[hosts[last'.h].cell].borrow # 0]_vars

C13_Witness ==
  /\ last.op = "borrow_game_mut"
  /\ last.res = "panic"
  /\ Len(txns) = 1
  /\ ~txns[1].write
  /\ Len(runs) = 1

\* C14: InUse is transient: when an earlier play() on a cell returned
\* Err(InUse), a play() made after every guard on the cell was released does
\* not return InUse, and returns Ok when no coroutine was obtained before
C14_InUseTransient ==
  (/\ last.op = "play"
   /\ DriverGuards(hosts[last.h].cell) = {}
   /\ \E k \in 1..Len(kept) :
        /\ kept[k].op = "play"
        /\ kept[k].val = Err("InUse")
        /\ kept[k].cell = hosts[last.h].cell)
    => /\ last.val # Err("InUse")
       /\ (last.res = "Err" => runs = <<>>) => last.res = "Ok"

C14_Witness ==
  /\ last.op = "play"
  /\ last.res = "Ok"
  /\ Len(runs) = 1
  /\ txns = <<>>
  /\ Len(kept) = 1
  /\ kept[1].val = Err("InUse")

\* C15: AlreadyStarted is permanent: a play() on a cell from which a
\* coroutine was obtained before, made with no guard open, returns
\* Err(AlreadyStarted), whatever has become of that coroutine
C15_AlreadyStartedPermanent ==
  (/\ last.op = "play"
   /\ DriverGuards(hosts[last.h].cell) = {}
   /\ \E r \in 1..(Len(runs) - (IF last.res = "Ok" THEN 1 ELSE 0)) :
        runs[r].host.cell = hosts[last.h].cell)
    => last.val = Err("AlreadyStarted")

\* what a run is, apart from the host it runs on
Progress(run) == [run EXCEPT !.host = None]

C16_Replayed ==
  Len(runs) = 2 =>
    /\ hosts[2].cell # hosts[1].cell
    /\ Resumes(runs[2]) <= Len(kept) - 1
    /\ Resumes(runs[2]) = Len(kept) - 1 => Progress(runs[2]) = Progress(runs[1])

C16_Step ==
  (last'.op = "resume" /\ last'.h = 2) =>
    LET k == Resumes(runs[2]) + 2 IN
      /\ last'.arg = kept[k].x
      /\ last'.res = kept[k].res
      /\ last'.val = kept[k].val

PreHook(e) == IF e.tag = "Note" THEN Note(e.k, 0) ELSE e

C17_Step ==
  (/\ Mirrored
   /\ last'.op = "resume"
   /\ last'.res = "Yielded"
   /\ PreHook(last'.val) = last.arg) =>
    /\ cells'[hosts[1].cell].game = cells[hosts[2].cell].game
    /\ cells'[hosts[2].cell] = cells[hosts[2].cell]
    /\ last'.val = last.val
    /\ last'.out = last.out

C18_FiveResumes ==
  /\ \A r \in 1..Len(runs) :
       KindOf(runs[r].host.cell) = "RoShamBo" =>
         /\ runs[r].nrecv <= 4
         /\ runs[r].status = "Completed" => runs[r].nrecv = 4
  /\ (last.op = "resume" /\ KindOf(runs[last.h].host.cell) = "RoShamBo") =>
       LET n == runs[last.h].nrecv IN
         /\ last.res = "Yielded" =>
              /\ n = 1 => last.val = Msg("Ro!")
              /\ n = 2 => last.val = Msg("Sham!")
              /\ n = 3 => last.val = Msg("Bo!")
              /\ n = 4 => last.val.s \notin {"Ro!", "Sham!", "Bo!"}
         /\ last.res = "Complete" =>
              /\ n = 4
              /\ last.val.tag \in {"Tie", "Win", "Loss"}
         /\ last.res = "panic" => runs[last.h].status = "Completed"

C18_Witness ==
  /\ last.op = "resume"
  /\ last.h = 2
  /\ last.res = "Complete"
  /\ cells[2].game = RoShamBo("Paper", "Scissors")
  /\ runs[2].nrecv = 4

\* the cyclic rule
Beats(a, b) ==
  <<a, b>> \in {<<"Rock", "Scissors">>, <<"Paper", "Rock">>, <<"Scissors", "Paper">>}

\* C19: the Outcome of a RoShamBo run is Tie exactly when the stored choices
\* are equal, Win exactly when player 1's beats player 2's by the cyclic
\* rule, Loss exactly when player 2's beats player 1's; the fourth event
\* reads "X ties with X." or names the winning choice first, "X beats Y."
C19_CyclicRule ==
  (last.op = "resume" /\ KindOf(runs[last.h].host.cell) = "RoShamBo") =>
    LET g == cells[runs[last.h].host.cell].game IN
      /\ last.res = "Complete" =>
           /\ last.val.tag = "Tie" <=> g.p1 = g.p2
           /\ last.val.tag = "Win" <=> Beats(g.p1, g.p2)
           /\ last.val.tag = "Loss" <=> Beats(g.p2, g.p1)
      /\ (last.res = "Yielded" /\ runs[last.h].nrecv = 4) =>
           last.val.s = IF g.p1 = g.p2 THEN g.p1 \o " ties with " \o g.p1 \o "."
                        ELSE IF Beats(g.p1, g.p2) THEN g.p1 \o " beats " \o g.p2 \o "."
                        ELSE g.p2 \o " beats " \o g.p1 \o "."

C19_Witness ==
  /\ last.op = "resume"
  /\ last.res = "Complete"
  /\ last.val.tag = "Loss"
  /\ cells[1].game = RoShamBo("Scissors", "Rock")
  /\ runs[last.h].sent = Msg("Rock beats Scissors.")

\* every coroutine is where a poll leaves it: not started, at a yield_event
\* whose event the driver has received, or returned; and the driver never
\* sees a move whose outcome the body has not yet checked
C20_AtSuspension ==
  /\ \A r \in 1..Len(runs) :
       \/ runs[r].status = "NotStarted" /\ runs[r].pc = 0 /\ runs[r].ncalls = 0
       \/ /\ runs[r].status = "AwaitingInput"
          /\ runs[r].ncalls >= 1
          /\ runs[r].ncalls = runs[r].nrecv
       \/ runs[r].status = "Completed" /\ runs[r].outcome # None
  /\ \A c \in 1..Len(cells) :
       cells[c].game.outcome = TicTacToe_check_outcome(cells[c].game)

\* a resume runs the body up to its next yield_event, its return or a
\* panic, and a resume with a free tile runs the whole turn (the move, the
\* change of player, the check of the outcome); every other step of the
\* driver leaves the coroutines alone, and only a resume or a write of the
\* driver changes a game
C20_Step ==
  /\ last'.op \notin {"resume", "drop"} => runs' = runs
  /\ last'.op \notin {"resume", "write"} =>
       \A c \in 1..Len(cells) : cells'[c].game = cells[c].game
  /\ last'.op = "resume" =>
       LET r == last'.h IN
         /\ \A q \in 1..Len(runs) : q # r => runs'[q] = runs[q]
         /\ last'.res = "Yielded" =>
              /\ runs'[r].ncalls = runs[r].ncalls + 1
              /\ runs'[r].status = "AwaitingInput"
              /\ last'.val = runs'[r].sent
         /\ last'.res = "Complete" =>
              /\ runs'[r].ncalls = runs[r].ncalls
              /\ runs'[r].status = "Completed"
              /\ last'.val = runs'[r].outcome
         /\ last'.res = "panic" => (runs' = runs /\ cells' = cells)
         /\ last'.res \in {"Yielded", "Complete", "panic"}
         /\ (/\ runs[r].status = "AwaitingInput"
             /\ last'.res # "panic"
             /\ TicTacToe_tile(cells[runs[r].host.cell].game, last'.arg) = "None") =>
              LET g == cells[runs[r].host.cell].game
                  h == cells'[runs[r].host.cell].game
              IN /\ TicTacToe_tile(h, last'.arg) = g.current_player
                 /\ h.current_player = Player_next(g.current_player)
                 /\ h.outcome = TicTacToe_check_outcome(h)

\* C20: the driver gets control back from a resume only with the body at a
\* yield_event (one more than before), returned with its Outcome, or
\* panicked; the segment of the body between two suspensions runs inside
\* that one resume, whole, and no other operation of the driver moves the
\* body or shows a state from inside a segment
C20_SuspensionOnlyAtYield == []C20_AtSuspension /\ [][C20_Step]_vars

C20_Witness ==
  /\ last.op = "with_game"
  /\ last.res = "Ok"
  /\ runs # <<>>
  /\ runs[1].status = "AwaitingInput"
  /\ runs[1].nrecv = 3
  /\ TicTacToe_tile(cells[1].game, Pos(1, 0)) = "O"

\* C21: a game changes only under a write transaction: in a step that
\* changes the game of a cell, either the driver writes through a RefMut it
\* holds, which is the only guard on the cell, or a resume runs the body on
\* a cell with no borrow, so that every borrow_game_mut of the body (around
\* take_turn, around the store of the outcome) was granted
C21_MutationInTransaction ==
  [][\A c \in 1..Len(cells) :
       cells'[c].game # cells[c].game =>
         \/ /\ last'.op = "write"
            /\ txns[last'.h].cell = c
            /\ txns[last'.h].write
            /\ cells[c].borrow = -1
            /\ DriverGuards(c) = {last'.h}
         \/ /\ last'.op = "resume"
            /\ last'.res # "panic"
            /\ runs[last'.h].host.cell = c
            /\ cells[c].borrow = 0
            /\ DriverGuards(c) = {}]_vars

C21_Witness ==
  /\ last.op = "write"
  /\ runs # <<>>
  /\ runs[1].nrecv = 2
  /\ cells[1].game = TicTacToe_default
  /\ cells[1].borrow = -1

C22_Left ==
  /\ runs = <<>> => \A c \in 1..Len(cells) : cells[c].borrow = DriverBorrow(c)
  /\ (last.op = "play" /\ DriverGuards(hosts[last.h].cell) = {}) => last.res = "Ok"

C22_Drop ==
  /\ last'.op = "drop" =>
       /\ cells' = cells
       /\ txns' = txns
       /\ hosts' = hosts
       /\ last'.out = <<>>
  /\ (runs = <<>> /\ last'.op = "with_game") =>
       (last'.res = "panic" <=>
          \E k \in DriverGuards(hosts[last'.h].cell) : txns[k].write)
  /\ (runs = <<>> /\ last'.op = "with_game_mut") =>
       (last'.res = "Ok" <=> DriverGuards(hosts[last'.h].cell) = {})

\* C22: dropping a coroutine, completed or not, changes no cell (the game is
\* what the last resume left, no borrow appears or stays), no guard and no
\* handle; afterwards the accessors are granted or refused by the driver's
\* own guards alone, and play() with no guard open succeeds, on a Host built
\* by a new Host::new as well
C22_DiscardAbandons == []C22_Left /\ [][C22_Drop]_vars

C22_Witness ==
  /\ Len(cells) = 2
  /\ last.op = "play"
  /\ last.res = "Ok"
  /\ last.h = 2
  /\ hosts[2].cell = 2
  /\ TicTacToe_tile(cells[1].game, Pos(0, 0)) = "X"
  /\ cells[1].game.outcome = None
  /\ cells[1].borrow = 0

C23_Fresh ==
  /\ last.op = "new" =>
       /\ hosts[last.h].cell = Len(cells)
       /\ cells[Len(cells)] =
            [is_in_progress |-> FALSE, game |-> last.arg, borrow |-> 0]
  /\ (/\ last.op = "play"
      /\ DriverGuards(hosts[last.h].cell) = {}
      /\ Cardinality({r \in 1..Len(runs) :
                        runs[r].host.cell = hosts[last.h].cell}) <= 1) =>
       /\ last.res = "Ok"
       /\ runs # <<>>
       /\ runs[Len(runs)] = NewRun(hosts[last.h])
  /\ (last.op \in {"game", "clone_game"} /\ last.res = "Ok") =>
       last.val = cells[hosts[last.h].cell].game

C23_Kept ==
  /\ \A c \in 1..Len(cells) : cells'[c].game = cells[c].game
  /\ last'.op = "new" =>
       /\ Len(cells') = Len(cells) + 1
       /\ last'.arg \in NewGames
  /\ (last'.op \in {"game", "clone_game"}
      /\ ~ \E k \in DriverGuards(hosts[last'.h].cell) : txns[k].write) =>
       last'.res = "Ok"

\* C23: Host::new(g) appends a State of its own with is_in_progress false,
\* the game g and no borrow; the first play() on it, no guard open, returns
\* Ok with a coroutine that has not started; while the game is not written,
\* game() and clone_game() return the g the State was built with
C23_NewState == []C23_Fresh /\ [][C23_Kept]_vars

C23_Witness ==
  /\ Len(cells) = 2
  /\ cells[2].game # cells[1].game
  /\ last.op = "clone_game"
  /\ hosts[last.h].cell = 2
  /\ last.val = cells[2].game
  /\ \E r \in 1..Len(runs) : runs[r].host.cell = 2

\* C24: is_in_progress is false in every cell in every reachable state; a
\* play() never returns Err(AlreadyStarted), and with no guard open on the
\* cell it returns Ok with a new coroutine, whatever coroutines were obtained
\* on the cell before
C24_NeverStarted ==
  /\ \A c \in 1..Len(cells) : ~cells[c].is_in_progress
  /\ last.op = "play" =>
       /\ last.res \in {"Ok", "Err"}
       /\ last.val # Err("AlreadyStarted")
       /\ DriverGuards(hosts[last.h].cell) = {} =>
            /\ last.res = "Ok"
            /\ runs[Len(runs)] = NewRun(hosts[last.h])

C24_Witness ==
  /\ last.op = "play"
  /\ last.res = "Ok"
  /\ Len(runs) = 2
  /\ runs[1].status = "Completed"
  /\ runs[1].host.cell = runs[2].host.cell
  /\ runs[2] = NewRun(hosts[last.h])

C25_Alone ==
  \A k \in 1..Len(txns) :
    txns[k].write =>
      /\ DriverGuards(txns[k].cell) = {k}
      /\ cells[txns[k].cell].borrow = -1

C25_Refused ==
  /\ (/\ last'.op \in OpenOps \cup {"process_event"}
      /\ \E k \in DriverGuards(hosts[last'.h].cell) : txns[k].write) =>
       /\ last'.res = "panic"
       /\ cells' = cells
       /\ txns' = txns
  /\ (/\ last'.op \in {"borrow_game_mut", "with_game_mut", "process_event"}
      /\ DriverGuards(hosts[last'.h].cell) # {}) =>
       /\ last'.res = "panic"
       /\ cells' = cells
       /\ txns' = txns

\* C25: a write guard is the only guard open on its cell; while one is open,
\* borrow_game, with_game, borrow_game_mut, with_game_mut and process_event
\* on the cell panic, and while any guard is open borrow_game_mut,
\* with_game_mut and process_event panic; a refused call changes nothing
C25_WritersExclude == []C25_Alone /\ [][C25_Refused]_vars

C25_Witness ==
  /\ last.op = "with_game"
  /\ last.res = "panic"
  /\ Len(txns) = 1
  /\ txns[1].write
  /\ txns[1].cell = hosts[last.h].cell
  /\ cells[txns[1].cell].borrow = -1

C26_Unstarted ==
  \A r \in 1..Len(runs) :
    runs[r].status = "NotStarted" => runs[r] = NewRun(runs[r].host)

C26_Play ==
  /\ last'.op = "play" =>
       /\ cells' = cells
       /\ txns' = txns
       /\ hosts' = hosts
       /\ last'.out = <<>>
       /\ runs' = IF last'.res = "Ok"
                  THEN Append(runs, NewRun(hosts[last'.h]))
                  ELSE runs
  /\ (/\ last'.op = "resume"
      /\ last'.res # "panic"
      /\ runs[last'.h].status = "NotStarted") =>
       /\ runs'[last'.h].status # "NotStarted"
       /\ runs'[last'.h].ncalls + Len(last'.out) > 0

\* C26: a play() step leaves every cell as it was, borrow state included,
\* opens no guard, makes no hook call and sends nothing out; when it returns
\* Ok the only change is one more coroutine, not started, at the entry of the
\* body, and a coroutine stays so until its first resume, which runs the body
C26_PlayOnlyBuilds == []C26_Unstarted /\ [][C26_Play]_vars

C26_Witness ==
  /\ last.op = "play"
  /\ last.res = "Ok"
  /\ Len(runs) = 2
  /\ runs[2] = NewRun(hosts[last.h])
  /\ runs[1].status = "AwaitingInput"
  /\ cells[hosts[last.h].cell].borrow = 0
  /\ txns = <<>>

Claimed(g, p) ==
  Cardinality({i \in 1..(BOARD_SIZE * BOARD_SIZE) : g.board[i] = p})

C27_Alternate ==
  \A c \in 1..Len(cells) :
    LET g == cells[c].game IN
      /\ Claimed(g, "X") - Claimed(g, "O") \in {0, 1}
      /\ g.current_player = "X" <=> Claimed(g, "X") = Claimed(g, "O")

C27_Move ==
  (/\ last'.op = "resume"
   /\ last'.res # "panic"
   /\ runs[last'.h].status = "AwaitingInput") =>
    LET r == last'.h
        c == runs[r].host.cell
        g == cells[c].game
        i == Pos_index(last'.arg) + 1
    IN IF g.board[i] # "None"
       THEN /\ cells'[c].game = g
            /\ last'.res = "Yielded"
            /\ last'.val = InvalidMove
            /\ runs'[r].status = "AwaitingInput"
       ELSE /\ cells'[c].game.board = [g.board EXCEPT ![i] = g.current_player]
            /\ cells'[c].game.current_player = Player_next(g.current_player)
            /\ last'.res = "Yielded" =>
                 /\ last'.val = Ok(Player_next(g.current_player))
                 /\ runs'[r].status = "AwaitingInput"

\* C27: a resume of a waiting TicTacToe run with the Pos of a taken tile
\* leaves the game as it was, yields Err(InvalidMove) and waits again with
\* the same current player; with the Pos of a free tile it gives that tile,
\* and no other, to the current player and makes the other player current,
\* whom the next event names; so X has as many tiles as O when X is to move
\* and one more when O is
C27_TakeTurn == []C27_Alternate /\ [][C27_Move]_vars

C27_Witness ==
  /\ last.op = "resume"
  /\ last.res = "Yielded"
  /\ last.val = InvalidMove
  /\ last.arg = Pos(1, 0)
  /\ TicTacToe_tile(cells[1].game, Pos(0, 0)) = "X"
  /\ TicTacToe_tile(cells[1].game, Pos(1, 0)) = "O"
  /\ Claimed(cells[1].game, "X") = 1
  /\ Claimed(cells[1].game, "O") = 1
  /\ cells[1].game.current_player = "X"

C28_Stored ==
  /\ \A r \in 1..Len(runs) :
       /\ runs[r].status = "Completed" <=> cells[runs[r].host.cell].game.outcome # None
       /\ runs[r].status = "Completed" =>
            cells[runs[r].host.cell].game.outcome = runs[r].outcome
  /\ kept[1].last_outcome = cells[1].game.outcome
  /\ kept[1].pc = "resume" =>
       /\ kept[1].last_outcome = None
       /\ runs[1].status # "Completed"
       /\ cells[1].borrow = 0
  /\ (Running /\ kept[1].pc = "wait") =>
       /\ cells[1].borrow = 1
       /\ txns = <<[write |-> FALSE, cell |-> 1]>>
  /\ last.op = "resume" =>
       /\ last.res \in {"Yielded", "Complete"}
       /\ last.res = "Complete" <=> cells[1].game.outcome # None
       /\ last.res = "Complete" => last.val = cells[1].game.outcome

C28_Loop ==
  /\ last'.op = "resume" => runs[last'.h].status # "Completed"
  /\ (last'.op = "wait_for_input" /\ runs[1].status = "Completed") =>
       /\ last'.val \in {NewGame, Quit}
       /\ kept'[1].pc = "done" \/ (/\ runs' = <<NewRun(hosts'[1])>>
                                    /\ cells'[1].game = TicTacToe_default
                                    /\ cells'[1].borrow = 0
                                    /\ kept'[1].last_outcome = None)
  /\ (last'.op = "key" /\ runs[1].status = "Completed") =>
       /\ last'.arg \notin {"Esc", "Enter"}
       /\ kept'[1].pc = "wait"
       /\ kept'[1].view = kept[1].view
       /\ UNCHANGED <<cells, runs, txns>>
  /\ (last'.op = "wait_for_input" /\ runs[1].status # "Completed") =>
       last'.val # NewGame

\* C28: in the terminal program the game's outcome is Some exactly when the
\* coroutine is Completed, and is then the value the last resume returned
\* and main keeps in last_outcome; main resumes only a coroutine that is not
\* Completed, and never while the Ref of with_game is alive; once it is
\* Completed a key press either leaves the program waiting, unchanged, or
\* makes the view return NewGame or Quit, after which main has left the loop
\* or holds a new Host over the default game with a coroutine not started
C28_OutcomeStored == []C28_Stored /\ [][C28_Loop]_vars

C28_Witness ==
  /\ last.op = "key"
  /\ kept[1].pc = "wait"
  /\ runs[1].status = "Completed"
  /\ cells[1].game.outcome # None
  /\ cells[1].game.outcome.tag = "Win"
  /\ kept[1].last_outcome = cells[1].game.outcome
  /\ cells[1].borrow = 1

====
